---- MODULE Spec2Model ----
(***************************************************************************)
(* ToolMaster.js 4.2.0: the async helpers retry and parallel, and the      *)
(* event bus (events.on / off / emit / once).                              *)
(*                                                                         *)
(* parallel is modelled at the level of the JavaScript job queue: every    *)
(* promise reaction the function registers is a job, jobs run in FIFO      *)
(* order, and the body of the async function between two awaits runs       *)
(* without interleaving.  Indices are 1-based (task i of the model is      *)
(* tasks[i-1] of the code).                                                *)
(***************************************************************************)
EXTENDS Integers, Sequences, FiniteSets, TLC

\* ------------------------------------------------------------------ bounds
MaxTasks == 3
MaxRetries == 3
MaxListeners == 2
MaxEmits == 3
MaxDepth == 2
MaxDelay == 2
MaxTime == 4
MaxCalls == 3
MaxTtl == 2
MaxSeconds == 3

Values == {"a", "b"}
Delays == {0, 1, 3}

VARIABLES
  \* parallel(tasks, concurrency)
  tasksLen, concurrency, nextIdx, pc, task, val, invoked, results, executing,
  reactions, queue, raceId, raceState, allState, allVals, allRemaining, out,
  halt,
  \* retry(fn, retries, delay)
  retries0, delay0, retries, delay, rpc, calls, inflight, fails, waits, timer,
  fired, fnVal, rval, rerr,
  \* events
  listeners, count, stack, emits, nextWrapper,
  \* debounce(fn, delay, immediate)
  dDelay, dImmediate, now, dTimer, dTimers, dNextId, dCalls, dSince, dLastArgs,
  dLastAt, dFnCount, dFn, dCancelled, dLateCancel,
  \* setLocal / getLocal
  sNow, store, sWritten, sGot

pvars == <<tasksLen, concurrency, nextIdx, pc, task, val, invoked, results,
           executing, reactions, queue, raceId, raceState, allState, allVals,
           allRemaining, out, halt>>
rvars == <<retries0, delay0, retries, delay, rpc, calls, inflight, fails,
           waits, timer, fired, fnVal, rval, rerr>>
evars == <<listeners, count, stack, emits, nextWrapper>>
dvars == <<dDelay, dImmediate, now, dTimer, dTimers, dNextId, dCalls, dSince,
           dLastArgs, dLastAt, dFnCount, dFn, dCancelled, dLateCancel>>
svars == <<sNow, store, sWritten, sGot>>
vars == <<pvars, rvars, evars, dvars, svars>>

\* ------------------------------------------------------------ helpers
Tasks == 1..MaxTasks

RECURSIVE SortedSeq(_)
\* The members of a Set of indices in iteration (= insertion = index) order.
SortedSeq(s) ==
  IF s = {} THEN <<>>
  ELSE LET m == CHOOSE x \in s : \A y \in s : x <= y
       IN <<m>> \o SortedSeq(s \ {m})

Job(k, i, n) == [k |-> k, i |-> i, n |-> n]

\* A promise that has not settled.
Pending(t) == t \in {"scheduled", "running"}

\* results[k] = v on a JavaScript array: the array grows, skipped slots are holes (0).
AssignAt(seq, k, v) ==
  [j \in 1..(IF k > Len(seq) THEN k ELSE Len(seq)) |->
     IF j = k THEN v ELSE IF j <= Len(seq) THEN seq[j] ELSE 0]

ResultSlotShifted(i) == IF i > 1 THEN i - 1 ELSE i
\* results[i] = promise: the slot of the result array that holds task i's promise.
ResultSlot(i) == i

AddExecutingMissing(ex, i) == ex
\* executing.add(promise)
AddExecuting(ex, i) == ex \cup {i}

RaceNeverRejects(t) == FALSE
\* await Promise.race(executing) throws when the promise that settled first rejected.
RaceRejects(t) == t = "fail"

AtLimitOffByOne(size, c) == size > c
\* if (executing.size >= concurrency)
AtLimit(size, c) == size >= c

Running == {i \in Tasks : task[i] = "running"}

NoHalt == [err |-> 0, next |-> 0, flying |-> {}]

\* ------------------------------------------------------------ parallel
ParallelInit ==
  /\ tasksLen \in 0..MaxTasks
  /\ concurrency \in (-1)..(MaxTasks + 1)
  /\ nextIdx = 1
  /\ pc = "loop"
  /\ task = [i \in Tasks |-> "idle"]
  /\ val = [i \in Tasks |-> "none"]
  /\ invoked = [i \in Tasks |-> 0]
  /\ results = <<>>
  /\ executing = {}
  /\ reactions = [i \in Tasks |-> <<>>]
  /\ queue = <<>>
  /\ raceId = 0
  /\ raceState = "none"
  /\ allState = "none"
  /\ allVals = <<>>
  /\ allRemaining = 0
  /\ out = [state |-> "pending", vals |-> <<>>, err |-> 0]
  /\ halt = NoHalt

\* One iteration of the for loop: lines 141-149.
StartTask ==
  /\ pc = "loop"
  /\ nextIdx <= tasksLen
  /\ LET i == nextIdx
         task2 == [task EXCEPT ![i] = "scheduled"]
         ex2 == AddExecuting(executing, i)
         reac2 == [reactions EXCEPT ![i] = <<Job("cleanup", i, 0)>>]
         queue2 == Append(queue, Job("invoke", i, 0))
         id == raceId + 1
         settled == SortedSeq({m \in ex2 : ~Pending(task2[m])})
     IN /\ task' = task2
        /\ results' = AssignAt(results, ResultSlot(i), i)
        /\ executing' = ex2
        /\ nextIdx' = i + 1
        /\ IF AtLimit(Cardinality(ex2), concurrency)
           THEN \* await Promise.race(executing)
                /\ raceId' = id
                /\ raceState' = "pending"
                /\ reactions' = [m \in Tasks |->
                      IF m \in ex2 /\ Pending(task2[m])
                      THEN Append(reac2[m], Job("race", m, id)) ELSE reac2[m]]
                /\ queue' = queue2 \o
                      [j \in 1..Len(settled) |-> Job("race", settled[j], id)]
                /\ pc' = "await"
           ELSE /\ reactions' = reac2
                /\ queue' = queue2
                /\ UNCHANGED <<raceId, raceState, pc>>
  /\ UNCHANGED <<rvars, evars, dvars, svars, halt>>
  /\ UNCHANGED <<tasksLen, concurrency, val, invoked, allState, allVals,
                 allRemaining, out>>

\* return Promise.all(results): line 152.
ReturnAll ==
  /\ pc = "loop"
  /\ nextIdx > tasksLen
  /\ LET n == Len(results)
         ready == SelectSeq([s \in 1..n |-> s],
                    LAMBDA s : results[s] = 0 \/ ~Pending(task[results[s]]))
     IN /\ allVals' = [s \in 1..n |-> "none"]
        /\ allRemaining' = n
        /\ reactions' = [m \in Tasks |->
              IF Pending(task[m]) /\ \E s \in 1..n : results[s] = m
              THEN Append(reactions[m],
                     Job("all", m, CHOOSE s \in 1..n : results[s] = m))
              ELSE reactions[m]]
        /\ queue' = queue \o
              [j \in 1..Len(ready) |-> Job("all", results[ready[j]], ready[j])]
        /\ IF n = 0
           THEN /\ allState' = "resolved"
                /\ out' = [state |-> "resolved", vals |-> <<>>, err |-> 0]
           ELSE /\ allState' = "pending"
                /\ out' = out
  /\ pc' = "returned"
  /\ UNCHANGED <<rvars, evars, dvars, svars, halt>>
  /\ UNCHANGED <<tasksLen, concurrency, nextIdx, task, val, invoked, results,
                 executing, raceId, raceState>>

\* The promise a task returned settles (or the task returned or threw
\* synchronously): the reactions registered on Promise.resolve().then(task)
\* are queued in registration order.
Settled(i, state, v) ==
  /\ task' = [task EXCEPT ![i] = state]
  /\ val' = [val EXCEPT ![i] = v]
  /\ queue' = queue \o reactions[i]
  /\ reactions' = [reactions EXCEPT ![i] = <<>>]

\* A task's promise fulfils with a value.
Succeed ==
  \E i \in Tasks, v \in Values :
    /\ pc # "loop"
    /\ task[i] = "running"
    /\ Settled(i, "ok", v)
    /\ UNCHANGED <<rvars, evars, dvars, svars, halt>>
    /\ UNCHANGED <<tasksLen, concurrency, nextIdx, pc, invoked, results,
                   executing, raceId, raceState, allState, allVals,
                   allRemaining, out>>

\* A task's promise rejects; the error is identified by the task's index.
\* halt remembers the first rejection that arrives while parallel is
\* suspended at line 148 with every slot taken and tasks still unstarted.
Fail ==
  \E i \in Tasks :
    /\ pc # "loop"
    /\ task[i] = "running"
    /\ Settled(i, "fail", "none")
    /\ halt' = IF /\ halt.err = 0
                  /\ pc = "await"
                  /\ Cardinality(Running) >= concurrency
                  /\ nextIdx <= tasksLen
               THEN [err |-> i, next |-> nextIdx, flying |-> Running \ {i}]
               ELSE halt
    /\ UNCHANGED <<rvars, evars, dvars, svars>>
    /\ UNCHANGED <<tasksLen, concurrency, nextIdx, pc, invoked, results,
                   executing, raceId, raceState, allState, allVals,
                   allRemaining, out>>

Head1 == Head(queue)
JobReady(k) == pc # "loop" /\ queue # <<>> /\ Head1.k = k

\* Promise.resolve().then(task): the task is invoked in a job of its own.
InvokeJob ==
  /\ JobReady("invoke")
  /\ task' = [task EXCEPT ![Head1.i] = "running"]
  /\ invoked' = [invoked EXCEPT ![Head1.i] = @ + 1]
  /\ queue' = Tail(queue)
  /\ UNCHANGED <<rvars, evars, dvars, svars, halt>>
  /\ UNCHANGED <<tasksLen, concurrency, nextIdx, pc, val, results, executing,
                 reactions, raceId, raceState, allState, allVals,
                 allRemaining, out>>

\* promise.then(cleanup): on fulfilment cleanup runs; on rejection the
\* derived promise rejects and its .catch(cleanup) is queued.
CleanupJob ==
  /\ JobReady("cleanup")
  /\ IF task[Head1.i] = "ok"
     THEN /\ executing' = executing \ {Head1.i}
          /\ queue' = Tail(queue)
     ELSE /\ executing' = executing
          /\ queue' = Append(Tail(queue), Job("catch", Head1.i, 0))
  /\ UNCHANGED <<rvars, evars, dvars, svars, halt>>
  /\ UNCHANGED <<tasksLen, concurrency, nextIdx, pc, task, val, invoked,
                 results, reactions, raceId, raceState, allState, allVals,
                 allRemaining, out>>

\* .catch(cleanup) of a rejected task.
CatchJob ==
  /\ JobReady("catch")
  /\ executing' = executing \ {Head1.i}
  /\ queue' = Tail(queue)
  /\ UNCHANGED <<rvars, evars, dvars, svars, halt>>
  /\ UNCHANGED <<tasksLen, concurrency, nextIdx, pc, task, val, invoked,
                 results, reactions, raceId, raceState, allState, allVals,
                 allRemaining, out>>

\* Promise.race's reaction on one member: the first one settles the race
\* and queues the continuation of the await.
RaceJob ==
  /\ JobReady("race")
  /\ IF Head1.n = raceId /\ raceState = "pending"
     THEN /\ raceState' = "settled"
          /\ queue' = Append(Tail(queue), Job("resume", Head1.i, 0))
     ELSE /\ raceState' = raceState
          /\ queue' = Tail(queue)
  /\ UNCHANGED <<rvars, evars, dvars, svars, halt>>
  /\ UNCHANGED <<tasksLen, concurrency, nextIdx, pc, task, val, invoked,
                 results, executing, reactions, raceId, allState, allVals,
                 allRemaining, out>>

\* The await of line 148 resumes: a rejected race throws out of parallel,
\* a fulfilled one continues the loop.
ResumeJob ==
  /\ JobReady("resume")
  /\ queue' = Tail(queue)
  /\ IF RaceRejects(task[Head1.i])
     THEN /\ pc' = "done"
          /\ out' = [state |-> "rejected", vals |-> <<>>, err |-> Head1.i]
     ELSE /\ pc' = "loop"
          /\ out' = out
  /\ UNCHANGED <<rvars, evars, dvars, svars, halt>>
  /\ UNCHANGED <<tasksLen, concurrency, nextIdx, task, val, invoked, results,
                 executing, reactions, raceId, raceState, allState, allVals,
                 allRemaining>>

\* Promise.all's reaction on one element of results.
AllJob ==
  /\ JobReady("all")
  /\ queue' = Tail(queue)
  /\ LET i == Head1.i
         s == Head1.n
         failed == i # 0 /\ task[i] = "fail"
         vals2 == [allVals EXCEPT ![s] = IF i = 0 THEN "undefined" ELSE val[i]]
     IN IF allState # "pending"
        THEN UNCHANGED <<allState, allVals, allRemaining, out>>
        ELSE IF failed
        THEN /\ allState' = "rejected"
             /\ out' = [state |-> "rejected", vals |-> <<>>, err |-> i]
             /\ UNCHANGED <<allVals, allRemaining>>
        ELSE /\ allVals' = vals2
             /\ allRemaining' = allRemaining - 1
             /\ IF allRemaining = 1
                THEN /\ allState' = "resolved"
                     /\ out' = [state |-> "resolved", vals |-> vals2, err |-> 0]
                ELSE /\ allState' = allState
                     /\ out' = out
  /\ UNCHANGED <<rvars, evars, dvars, svars, halt>>
  /\ UNCHANGED <<tasksLen, concurrency, nextIdx, pc, task, val, invoked,
                 results, executing, reactions, raceId, raceState>>


\* ------------------------------------------------------------ retry
RECURSIVE Pow2(_)
Pow2(n) == IF n <= 0 THEN 1 ELSE 2 * Pow2(n - 1)

GiveUpEarly(r) == r <= 1
\* if (retries <= 0) throw error
GiveUp(r) == r <= 0

NextDelayConstant(d) == d
\* this.retry(fn, retries - 1, delay * 2): the next delay
NextDelay(d) == d * 2

TimerNotAwaited(t) == t \in {"armed", "fired"}
\* await new Promise(res => setTimeout(res, delay)): resumes once the timer fired
TimerElapsed(t) == t = "fired"

RetryInit ==
  /\ retries0 \in 0..MaxRetries
  /\ delay0 \in Delays
  /\ retries = retries0
  /\ delay = delay0
  /\ rpc = "call"
  /\ calls = 0 /\ inflight = 0 /\ fails = 0 /\ waits = <<>> /\ timer = "none"
  /\ fired = 0 /\ fnVal = "none" /\ rval = "none" /\ rerr = 0

\* retry(fn, retries, delay) is called: line 122 invokes fn().
RetryCall ==
  /\ rpc = "call"
  /\ calls' = calls + 1
  /\ inflight' = inflight + 1
  /\ rpc' = "inflight"
  /\ UNCHANGED <<retries0, delay0, retries, delay, fails, waits, timer, fired,
                 fnVal, rval, rerr>>
  /\ UNCHANGED <<pvars, evars, dvars, svars>>

\* fn() fulfils: return await fn().
FnSucceeds ==
  \E v \in Values :
    /\ rpc = "inflight"
    /\ inflight' = inflight - 1
    /\ fnVal' = v
    /\ rval' = v
    /\ rpc' = "resolved"
    /\ UNCHANGED <<retries0, delay0, retries, delay, calls, fails, waits,
                   timer, fired, rerr>>
    /\ UNCHANGED <<pvars, evars, dvars, svars>>

\* fn() rejects (the error is identified by the ordinal of the invocation):
\* the catch block either rethrows or arms the timer.
FnFails ==
  /\ rpc = "inflight"
  /\ inflight' = inflight - 1
  /\ fails' = fails + 1
  /\ IF GiveUp(retries)
     THEN /\ rpc' = "rejected"
          /\ rerr' = calls
          /\ UNCHANGED <<timer, waits>>
     ELSE /\ rpc' = "sleep"
          /\ timer' = "armed"
          /\ waits' = Append(waits, delay)
          /\ rerr' = rerr
  /\ UNCHANGED <<retries0, delay0, retries, delay, calls, fired, fnVal, rval>>
  /\ UNCHANGED <<pvars, evars, dvars, svars>>

\* The setTimeout of line 125 fires.
TimerFires ==
  /\ timer = "armed"
  /\ timer' = "fired"
  /\ fired' = fired + 1
  /\ UNCHANGED <<retries0, delay0, retries, delay, rpc, calls, inflight, fails,
                 waits, fnVal, rval, rerr>>
  /\ UNCHANGED <<pvars, evars, dvars, svars>>

\* return this.retry(fn, retries - 1, delay * 2): line 126.
RetryRecurse ==
  /\ rpc = "sleep"
  /\ TimerElapsed(timer)
  /\ timer' = "none"
  /\ retries' = retries - 1
  /\ delay' = NextDelay(delay)
  /\ rpc' = "call"
  /\ UNCHANGED <<retries0, delay0, calls, inflight, fails, waits, fired, fnVal,
                 rval, rerr>>
  /\ UNCHANGED <<pvars, evars, dvars, svars>>

\* ------------------------------------------------------------ events
Wrappers == 1..MaxListeners

Frame(k, w, visited) == [k |-> k, w |-> w, visited |-> visited]
Top == stack[Len(stack)]
Pop == SubSeq(stack, 1, Len(stack) - 1)
InSeq(x, seq) == \E j \in 1..Len(seq) : seq[j] = x
Without(seq, x) == SelectSeq(seq, LAMBDA y : y # x)

\* Set.prototype.forEach: the entries not yet visited, in insertion order.
Unvisited == SelectSeq(listeners, LAMBDA w : w \notin Top.visited)
InEmit == stack # <<>> /\ Top.k = "emit"
Visit(w) == [stack EXCEPT ![Len(stack)].visited = @ \cup {w}]

EventsInit ==
  /\ listeners = <<>>
  /\ count = [w \in Wrappers |-> 0]
  /\ stack = <<>>
  /\ emits = 0
  /\ nextWrapper = 1

\* once(event, listener): on(event, wrapper) with a fresh wrapper.
Once ==
  /\ stack = <<>>
  /\ nextWrapper <= MaxListeners
  /\ listeners' = Append(listeners, nextWrapper)
  /\ nextWrapper' = nextWrapper + 1
  /\ UNCHANGED <<count, stack, emits>>
  /\ UNCHANGED <<pvars, rvars, dvars, svars>>

\* emit(event) from the top level.
Emit ==
  /\ stack = <<>>
  /\ emits < MaxEmits
  /\ emits' = emits + 1
  /\ stack' = IF nextWrapper > 1 THEN <<Frame("emit", 0, {})>> ELSE stack
  /\ UNCHANGED <<listeners, count, nextWrapper>>
  /\ UNCHANGED <<pvars, rvars, dvars, svars>>

\* forEach has no entry left: emit returns to its caller.
EmitReturns ==
  /\ InEmit
  /\ Unvisited = <<>>
  /\ stack' = Pop
  /\ UNCHANGED <<listeners, count, emits, nextWrapper>>
  /\ UNCHANGED <<pvars, rvars, dvars, svars>>

\* The wrapper is called, the listener returns, and the wrapper calls off.
ListenerReturns ==
  /\ InEmit
  /\ Unvisited # <<>>
  /\ LET w == Head(Unvisited)
     IN /\ count' = [count EXCEPT ![w] = @ + 1]
        /\ listeners' = Without(listeners, w)
        /\ stack' = Visit(w)
  /\ UNCHANGED <<emits, nextWrapper>>
  /\ UNCHANGED <<pvars, rvars, dvars, svars>>

\* The wrapper is called and the listener throws: off is not reached, and
\* emit catches the error.
ListenerThrows ==
  /\ InEmit
  /\ Unvisited # <<>>
  /\ LET w == Head(Unvisited)
     IN /\ count' = [count EXCEPT ![w] = @ + 1]
        /\ stack' = Visit(w)
  /\ UNCHANGED <<listeners, emits, nextWrapper>>
  /\ UNCHANGED <<pvars, rvars, dvars, svars>>

\* The wrapper is called and the listener emits the same event.
ListenerEmits ==
  /\ InEmit
  /\ Unvisited # <<>>
  /\ emits < MaxEmits
  /\ Len(stack) < 2 * MaxDepth - 1
  /\ LET w == Head(Unvisited)
     IN /\ count' = [count EXCEPT ![w] = @ + 1]
        /\ stack' = Visit(w) \o <<Frame("wrapper", w, {}), Frame("emit", 0, {})>>
  /\ emits' = emits + 1
  /\ UNCHANGED <<listeners, nextWrapper>>
  /\ UNCHANGED <<pvars, rvars, dvars, svars>>

\* The nested emit has returned; the listener returns and the wrapper calls off.
NestedReturns ==
  /\ stack # <<>>
  /\ Top.k = "wrapper"
  /\ listeners' = Without(listeners, Top.w)
  /\ stack' = Pop
  /\ UNCHANGED <<count, emits, nextWrapper>>
  /\ UNCHANGED <<pvars, rvars, dvars, svars>>

\* The nested emit has returned; the listener throws.
NestedThrows ==
  /\ stack # <<>>
  /\ Top.k = "wrapper"
  /\ stack' = Pop
  /\ UNCHANGED <<listeners, count, emits, nextWrapper>>
  /\ UNCHANGED <<pvars, rvars, dvars, svars>>

\* ------------------------------------------------------------ debounce
NoFn == [args |-> "none", at |-> 0, last |-> "none", lastAt |-> 0, n |-> 0]

ClearTimeoutMissing(timers, id) == timers
\* clearTimeout(timer): the pending timer with that id, if any, is dropped.
ClearTimeout(timers, id) == {t \in timers : t.id # id}

DebounceInit ==
  /\ dDelay \in 1..MaxDelay
  /\ dImmediate \in BOOLEAN
  /\ now = 0
  /\ dTimer = 0
  /\ dTimers = {}
  /\ dNextId = 1
  /\ dCalls = 0 /\ dSince = 0 /\ dLastArgs = "none" /\ dLastAt = 0
  /\ dFnCount = 0 /\ dFn = NoFn /\ dCancelled = 0 /\ dLateCancel = FALSE

\* fn(...args) is invoked with the given arguments.
FnInvoked(a) ==
  /\ dFnCount' = dFnCount + 1
  /\ dFn' = [args |-> a, at |-> now, last |-> dLastArgs, lastAt |-> dLastAt,
             n |-> dSince]

\* The debounced function is called: lines 69-75.
DebouncedCall ==
  \E a \in Values :
    /\ dCalls < MaxCalls
    /\ LET kept == ClearTimeout(dTimers, dTimer)
       IN /\ dTimers' = kept \cup {[id |-> dNextId, due |-> now + dDelay, args |-> a]}
          /\ dCancelled' = dCancelled + Cardinality(dTimers \ kept)
          /\ dLateCancel' = (dLateCancel \/
                \E t \in dTimers : t.id = dTimer /\ now >= t.due)
    /\ IF dImmediate /\ dTimer = 0
       THEN /\ dFnCount' = dFnCount + 1
            /\ dFn' = [args |-> a, at |-> now, last |-> a, lastAt |-> now, n |-> 1]
       ELSE UNCHANGED <<dFnCount, dFn>>
    /\ dTimer' = dNextId
    /\ dNextId' = dNextId + 1
    /\ dCalls' = dCalls + 1
    /\ dSince' = dSince + 1
    /\ dLastArgs' = a
    /\ dLastAt' = now
    /\ UNCHANGED <<dDelay, dImmediate, now>>
    /\ UNCHANGED <<pvars, rvars, evars, svars>>

\* The callback of setTimeout runs, at its due time or later: lines 72-75.
TimerCallback ==
  \E t \in dTimers :
    /\ now >= t.due
    /\ dTimers' = dTimers \ {t}
    /\ IF ~dImmediate
       THEN /\ FnInvoked(t.args)
            /\ dSince' = 0
       ELSE UNCHANGED <<dFnCount, dFn, dSince>>
    /\ dTimer' = 0
    /\ UNCHANGED <<dDelay, dImmediate, now, dNextId, dCalls, dLastArgs, dLastAt,
                   dCancelled, dLateCancel>>
    /\ UNCHANGED <<pvars, rvars, evars, svars>>

\* Time passes; a due timer may run late, never early.
Tick ==
  /\ now < MaxTime
  /\ now' = now + 1
  /\ UNCHANGED <<dDelay, dImmediate, dTimer, dTimers, dNextId, dCalls, dSince,
                 dLastArgs, dLastAt, dFnCount, dFn, dCancelled, dLateCancel>>
  /\ UNCHANGED <<pvars, rvars, evars, svars>>

\* ------------------------------------------------------------ storage
Keys == {"token"}
StoredValues == {"abc", "NaN"}
Absent == [present |-> FALSE, value |-> "none", expires |-> 0]
NoWrite == [done |-> FALSE, value |-> "none", at |-> 0, ttl |-> 0]
NoGet == [done |-> FALSE, value |-> "none", at |-> 0]

\* JSON.parse(JSON.stringify(data)).value: NaN is written as null.
JsonRoundTrip(v) == IF v = "NaN" THEN "null" ELSE v

\* expires: ttl ? Date.now() + ttl * 1000 : 0
Expires(t, ttl) == IF ttl # 0 THEN t + ttl * 1000 ELSE 0

\* parsed.expires && Date.now() > parsed.expires
Expired(e, t) == e # 0 /\ t > e

StorageInit ==
  /\ sNow = 0
  /\ store = [k \in Keys |-> Absent]
  /\ sWritten = [k \in Keys |-> NoWrite]
  /\ sGot = [k \in Keys |-> NoGet]

\* setLocal(key, value, ttl): lines 356-362.
SetLocal ==
  \E k \in Keys, v \in StoredValues, ttl \in 0..MaxTtl :
    /\ store' = [store EXCEPT ![k] = [present |-> TRUE,
                   value |-> JsonRoundTrip(v), expires |-> Expires(sNow, ttl)]]
    /\ sWritten' = [sWritten EXCEPT ![k] =
                      [done |-> TRUE, value |-> v, at |-> sNow, ttl |-> ttl]]
    /\ sGot' = [sGot EXCEPT ![k] = NoGet]
    /\ UNCHANGED sNow
    /\ UNCHANGED <<pvars, rvars, evars, dvars>>

\* getLocal(key): lines 369-383.
GetLocal ==
  \E k \in Keys :
    /\ IF ~store[k].present
       THEN /\ sGot' = [sGot EXCEPT ![k] =
                          [done |-> TRUE, value |-> "null", at |-> sNow]]
            /\ store' = store
       ELSE IF Expired(store[k].expires, sNow)
       THEN /\ store' = [store EXCEPT ![k] = Absent]
            /\ sGot' = [sGot EXCEPT ![k] =
                          [done |-> TRUE, value |-> "null", at |-> sNow]]
       ELSE /\ sGot' = [sGot EXCEPT ![k] =
                          [done |-> TRUE, value |-> store[k].value, at |-> sNow]]
            /\ store' = store
    /\ UNCHANGED <<sNow, sWritten>>
    /\ UNCHANGED <<pvars, rvars, evars, dvars>>

\* Date.now() advances by half a second.
ClockAdvances ==
  /\ sNow < MaxSeconds * 1000
  /\ sNow' = sNow + 500
  /\ UNCHANGED <<store, sWritten, sGot>>
  /\ UNCHANGED <<pvars, rvars, evars, dvars>>

\* ------------------------------------------------------------ idle parts
RetryIdle ==
  /\ retries0 = 0 /\ delay0 = 0 /\ retries = 0 /\ delay = 0 /\ rpc = "idle"
  /\ calls = 0 /\ inflight = 0 /\ fails = 0 /\ waits = <<>> /\ timer = "none"
  /\ fired = 0 /\ fnVal = "none" /\ rval = "none" /\ rerr = 0

EventsIdle ==
  /\ listeners = <<>> /\ count = [w \in 1..MaxListeners |-> 0]
  /\ stack = <<>> /\ emits = 0 /\ nextWrapper = 1

DebounceIdle ==
  /\ dDelay = 1 /\ dImmediate = FALSE /\ now = 0 /\ dTimer = 0 /\ dTimers = {}
  /\ dNextId = 1 /\ dCalls = 0 /\ dSince = 0 /\ dLastArgs = "none"
  /\ dLastAt = 0 /\ dFnCount = 0 /\ dFn = NoFn /\ dCancelled = 0
  /\ dLateCancel = FALSE

StorageIdle ==
  /\ sNow = 0 /\ store = [k \in Keys |-> Absent]
  /\ sWritten = [k \in Keys |-> NoWrite] /\ sGot = [k \in Keys |-> NoGet]

ParallelIdle ==
  /\ tasksLen = 0 /\ concurrency = 1 /\ nextIdx = 1 /\ pc = "idle"
  /\ task = [i \in Tasks |-> "idle"] /\ val = [i \in Tasks |-> "none"]
  /\ invoked = [i \in Tasks |-> 0] /\ results = <<>> /\ executing = {}
  /\ reactions = [i \in Tasks |-> <<>>] /\ queue = <<>> /\ raceId = 0
  /\ raceState = "none" /\ allState = "none" /\ allVals = <<>>
  /\ allRemaining = 0
  /\ out = [state |-> "pending", vals |-> <<>>, err |-> 0]
  /\ halt = NoHalt

\* ------------------------------------------------------------ specifications
InitParallel == ParallelInit /\ RetryIdle /\ EventsIdle /\ DebounceIdle /\ StorageIdle
NextParallel ==
  \/ StartTask \/ ReturnAll \/ Succeed \/ Fail
  \/ InvokeJob \/ CleanupJob \/ CatchJob \/ RaceJob \/ ResumeJob \/ AllJob
SpecParallel == InitParallel /\ [][NextParallel]_vars

InitRetry == RetryInit /\ ParallelIdle /\ EventsIdle /\ DebounceIdle /\ StorageIdle
NextRetry == RetryCall \/ FnSucceeds \/ FnFails \/ TimerFires \/ RetryRecurse
SpecRetry == InitRetry /\ [][NextRetry]_vars

InitEvents == EventsInit /\ ParallelIdle /\ RetryIdle /\ DebounceIdle /\ StorageIdle
NextEvents ==
  \/ Once \/ Emit \/ EmitReturns \/ ListenerReturns \/ ListenerThrows
  \/ ListenerEmits \/ NestedReturns \/ NestedThrows
SpecEvents == InitEvents /\ [][NextEvents]_vars

InitDebounce == DebounceInit /\ ParallelIdle /\ RetryIdle /\ EventsIdle /\ StorageIdle
NextDebounce == DebouncedCall \/ TimerCallback \/ Tick
SpecDebounce == InitDebounce /\ [][NextDebounce]_vars

InitStorage ==
  StorageInit /\ ParallelIdle /\ RetryIdle /\ EventsIdle /\ DebounceIdle
NextStorage == SetLocal \/ GetLocal \/ ClockAdvances
SpecStorage == InitStorage /\ [][NextStorage]_vars

\* Every job that is queued runs and every invoked task settles.
LiveParallel == SpecParallel /\ WF_vars(NextParallel)

\* ------------------------------------------------------------ properties
Batch == 1..tasksLen
SettledTasks == {i \in Batch : task[i] \in {"ok", "fail"}}
\* Nothing can happen any more: the job queue is empty, the function is
\* not running and no task is in flight.
Quiet == pc \in {"done", "returned"} /\ queue = <<>> /\ Running = {}

\* C1: with 1 <= C <= S, the number of tasks invoked and not yet settled
\* never exceeds C.
C1_BoundedInFlight ==
  (1 <= concurrency /\ concurrency <= tasksLen)
    => Cardinality(Running) <= concurrency

\* C1 witness: the limit is reached again after a slot was freed and refilled.
C1_Witness ==
  /\ tasksLen = 3 /\ concurrency = 2
  /\ Running = {2, 3} /\ task[1] = "ok"

\* C2: with a valid concurrency, a task's failure does not halt the others:
\* once nothing can happen any more, every task of the batch has been
\* invoked and has completed.
C2_AllTasksRun == (concurrency >= 1 /\ Quiet) => SettledTasks = Batch

\* C3: when every task succeeds, each task is invoked exactly once and
\* parallel resolves to exactly S values, value i being the one task i
\* produced; an empty batch resolves to the empty result at once.
C3_OrderedResults ==
  /\ \A i \in Tasks : invoked[i] <= 1
  /\ out.state = "resolved" =>
       /\ Len(out.vals) = tasksLen
       /\ \A i \in Batch : invoked[i] = 1 /\ out.vals[i] = val[i]
  /\ (Quiet /\ \A i \in Batch : task[i] = "ok") => out.state = "resolved"
  /\ (tasksLen = 0 /\ pc # "loop") => out.state = "resolved" /\ out.vals = <<>>

\* C3 witness: three tasks under concurrency 2 resolved to their own values.
C3_Witness ==
  /\ tasksLen = 3 /\ concurrency = 2
  /\ out.state = "resolved" /\ out.vals = <<"a", "b", "a">>

\* C4: with C <= 0 parallel fails fast: no task of the batch is ever invoked.
C4_FailFast == concurrency <= 0 => \A i \in Tasks : invoked[i] = 0

\* C5: when tasks fail, the outcome is still a result of S slots that
\* reports every task at its own index, so no failure is lost.
C5_FailuresInResult ==
  (concurrency >= 1 /\ Quiet /\ \E i \in Batch : task[i] = "fail") =>
    /\ out.state = "resolved"
    /\ Len(out.vals) = tasksLen
    /\ \A i \in Batch : task[i] = "ok" => out.vals[i] = val[i]

\* C8: tasks are invoked in input order; whenever the job queue has drained
\* and tasks are still unstarted, every slot is taken (a settle, by success
\* or by failure, has let the next task start); and with C >= S the runner
\* only ever waits once every task has been started.
C8_InOrderRefill ==
  /\ \A i \in Batch : (i > 1 /\ invoked[i] > 0) => invoked[i - 1] > 0
  /\ (pc # "loop" /\ queue = <<>> /\ nextIdx <= tasksLen)
       => Cardinality(Running) >= concurrency
  /\ (concurrency >= tasksLen /\ pc = "await") => nextIdx > tasksLen

\* C6: k failures followed by a success: retry resolves with that value
\* after k+1 invocations and the k delays d, 2d, ..., d*2^(k-1), in order.
C6_BackoffThenSuccess ==
  rpc = "resolved" =>
    /\ fails <= retries0
    /\ calls = fails + 1
    /\ rval = fnVal
    /\ waits = [j \in 1..fails |-> delay0 * Pow2(j - 1)]
    /\ fired = fails

\* C6 witness: two failures, then success, with a positive initial delay.
C6_Witness ==
  rpc = "resolved" /\ fails = 2 /\ delay0 = 3 /\ waits = <<3, 6>>

C9_Sequential ==
  /\ inflight <= 1
  /\ calls <= fails + 1
  /\ calls <= fired + 1
  /\ inflight = 1 => timer = "none"

\* C9 witness: the third invocation is in flight after two elapsed delays.
C9_Witness == inflight = 1 /\ calls = 3 /\ fired = 2 /\ fails = 2

OnStack(w) == \E j \in 1..Len(stack) : stack[j].k = "wrapper" /\ stack[j].w = w

\* C10: a listener registered with once is invoked at most once, and is
\* out of the listener set once its first invocation is over.
C10_OnceOnly ==
  \A w \in Wrappers :
    /\ count[w] <= 1
    /\ (count[w] >= 1 /\ ~OnStack(w)) => ~InSeq(w, listeners)

Wrote(k) == sWritten[k].done /\ JsonRoundTrip(sWritten[k].value) = sWritten[k].value
Deadline(k) == sWritten[k].at + sWritten[k].ttl * 1000

\* What getLocal returned for k since the last write: the value up to ttl
\* seconds after the write (always, with ttl = 0) and null later.
GetLocalHonoursTtl ==
  \A k \in Keys : (Wrote(k) /\ sGot[k].done) =>
    sGot[k].value =
      IF sWritten[k].ttl = 0 \/ sGot[k].at <= Deadline(k)
      THEN sWritten[k].value ELSE "null"

\* C12: after setLocal(key, value, ttl) with ttl > 0 the entry is gone once
\* ttl seconds have elapsed: getLocal returns value up to then and null
\* later, and the key is no longer in storage after expiry; with ttl = 0
\* getLocal keeps returning value.
C12_ExpiredEntryGone ==
  /\ GetLocalHonoursTtl
  /\ \A k \in Keys :
       (Wrote(k) /\ sWritten[k].ttl > 0 /\ sNow > Deadline(k))
         => ~store[k].present

\* C13: once a task has rejected while parallel was suspended with every
\* slot taken and tasks still unstarted, no further task is started or
\* invoked, parallel rejects with that task's error (and has done so once
\* the job queue has drained), and the tasks that were in flight are still
\* running or have completed on their own.
C13_RejectWhileWaiting ==
  halt.err # 0 =>
    /\ nextIdx = halt.next
    /\ \A j \in halt.next..tasksLen : invoked[j] = 0 /\ task[j] = "idle"
    /\ out.state \in {"pending", "rejected"}
    /\ out.state = "rejected" => out.err = halt.err
    /\ queue = <<>> => out.state = "rejected"
    /\ \A j \in halt.flying : task[j] \in {"running", "ok", "fail"}

\* C13 witness: parallel has rejected with the error of the task that failed
\* during the wait, a task then in flight has since fulfilled, and a task
\* of the batch was left unstarted.
C13_Witness ==
  /\ halt.err # 0 /\ halt.next <= tasksLen
  /\ out.state = "rejected" /\ out.err = halt.err
  /\ \E j \in halt.flying : task[j] = "ok"

\* The race that parallel is suspended on can still settle: a member is
\* unsettled, or the reaction of a settled member is in the job queue.
RaceCanSettle ==
  \/ \E m \in executing : Pending(task[m])
  \/ \E j \in 1..Len(queue) : queue[j].k = "race" /\ queue[j].n = raceId

NeverStranded ==
  /\ (pc = "await" /\ raceState = "pending") => RaceCanSettle
  /\ (pc = "await" /\ raceState = "settled")
       => \E j \in 1..Len(queue) : queue[j].k = "resume"

\* C14: for every batch and every concurrency, when every invoked task
\* settles, parallel is never suspended on a race that cannot settle and
\* the promise it returned eventually settles.
C14_EventuallySettles == []NeverStranded /\ <>(out.state # "pending")

\* C14 witness: with concurrency 0 a batch of three tasks has run to the
\* end and the returned promise has settled.
C14_Witness ==
  concurrency = 0 /\ tasksLen = 3 /\ Quiet /\ out.state # "pending"

====
